---- MODULE Spec2Model ----
(***************************************************************************)
(* Revision chains and indices of aars Records (src/src/aars/core.py).     *)
(*                                                                         *)
(* A Record is an in-memory object backed by a chain of immutable posts on *)
(* the Aleph network.  The network is the store `net` (posts in the order  *)
(* they were created; a post's item_hash is its position) together with    *)
(* the set `forgottenNet` of hashes that were forgotten.  `recs` holds the *)
(* in-memory Record objects, `indices` the class-level index registry.     *)
(* `lastOp` is the call that was made last and how it ended.  `hist` keeps  *)
(* per object its content at creation, the number of upserts since, the    *)
(* number of indices registered at creation and how create ended.          *)
(* `fetched` is the list of records the last Record.fetch call returned.   *)
(* The coroutines that are suspended at an await are `tasks` (the from_post *)
(* tasks of the last fetch_records call, each with its position in the      *)
(* coroutine and its rank of completion) and `pending` (per record,        *)
(* the hash lists of the forget requests the network has not answered yet, *)
(* one per forget call that is suspended in forget_object).                *)
(***************************************************************************)
EXTENDS Integers, Sequences, FiniteSets, TLC

VARIABLES recs, net, forgottenNet, forgetReqs, indices, lastOp, hist,
          fetched, tasks, pending

vars == <<recs, net, forgottenNet, forgetReqs, indices, lastOp, hist,
          fetched, tasks, pending>>

\* ---------------------------------------------------------------- bounds
\* Number of in-memory Record objects the caller constructs.
MaxRecs == 2
\* Number of posts the network accepts (create_post calls) when the chain
\* of one record is explored.
MaxPosts == 3
\* Number of posts the network accepts when several records and the indices
\* are explored.
MaxIndexPosts == 2
\* Largest absolute value of a revision number passed to fetch_revision.
MaxRev == 2
\* Number of forget calls on one record that are suspended at the same time.
MaxCalls == 2

\* ------------------------------------------------------- values and types
\* Python's None, for item_hash, current_revision, ref and absent arguments.
None == -1000

Objs == 1..MaxRecs
Hashes == 1..MaxPosts
\* The values the application gives to a record's field, and the keys it
\* looks up ("z" is never the value of a record).
Values == {"x", "y"}
Keys == Values \cup {"z"}
\* The Record subclasses of the application: A has the field `value`,
\* B has the field `name`.  The application registers indices for both and
\* creates records of type A.
Types == {"A", "B"}
CreatedTypes == {"A"}
FieldOf(t) == IF t = "A" THEN "value" ELSE "name"

\* cls(**kwargs): a freshly constructed record (field defaults).
NewRecord(t, v) ==
    [type |-> t, content |-> v, forgotten |-> FALSE, item_hash |-> None,
     current_revision |-> None, revision_hashes |-> <<>>]

\* An object slot in which no record has been constructed yet.
NoRecord == NewRecord("none", "none")

\* ----------------------------------------------------------- list helpers
\* reversed(list)
Reverse(s) == [i \in 1..Len(s) |-> s[Len(s) + 1 - i]]

\* list.index(x), 0-based; None stands for the ValueError of a missing x.
IndexOf(s, x) ==
    IF \E i \in 1..Len(s) : s[i] = x
    THEN (CHOOSE i \in 1..Len(s) : s[i] = x /\ \A j \in 1..(i - 1) : s[j] # x) - 1
    ELSE None

\* set(list)
ToSet(s) == {s[i] : i \in 1..Len(s)}

\* --------------------------------------------------- the storage network
\* client.create_post: the network appends an immutable post and answers
\* with its item_hash.
CreatePost(content, t, ref) ==
    Append(net, [item_hash |-> Len(net) + 1, ref |-> ref, content |-> content, type |-> t])

\* The posts the network still serves, newest first.
Available == SelectSeq(Reverse(net), LAMBDA p : p.item_hash \notin forgottenNet)

\* client.get_posts(hashes=..., types=[t])
GetPostsByHashes(hashes, t) ==
    SelectSeq(Available, LAMBDA p : p.item_hash \in hashes /\ p.type = t)

\* client.get_posts(refs=[ref], types=[t])
GetPostsByRefs(ref, t) ==
    SelectSeq(Available, LAMBDA p : p.ref = ref /\ p.type = t)

\* fetch_revisions keeping the order of the network's answer, newest first.
fetch_revisions_NewestFirst(t, ref) ==
    LET posts == GetPostsByRefs(ref, t)
    IN  [i \in 1..Len(posts) |-> posts[i].item_hash]

\* fetch_revisions: hashes of the posts that reference `ref`, oldest first.
fetch_revisions(t, ref) ==
    LET posts == GetPostsByRefs(ref, t)
    IN  Reverse([i \in 1..Len(posts) |-> posts[i].item_hash])

\* Record.update_revision_hashes
update_revision_hashes(t, item_hash) == <<item_hash>> \o fetch_revisions(t, item_hash)

\* from_post placing the rebuilt record at the newest revision of its chain.
from_post_AtTail(t, post) ==
    LET ih   == IF post.ref = None THEN post.item_hash ELSE post.ref
        revs == update_revision_hashes(t, ih)
    IN  [type |-> t, content |-> post.content, forgotten |-> FALSE, item_hash |-> ih,
         current_revision |-> Len(revs) - 1, revision_hashes |-> revs]

\* Record.from_post
from_post(t, post) ==
    LET ih   == IF post.ref = None THEN post.item_hash ELSE post.ref
        revs == update_revision_hashes(t, ih)
    IN  [type |-> t, content |-> post.content, forgotten |-> FALSE, item_hash |-> ih,
         current_revision |-> IndexOf(revs, post.item_hash), revision_hashes |-> revs]

\* fetch_records(datatype, item_hashes): one record per post of the response.
fetch_records(t, hashes) ==
    LET posts == GetPostsByHashes(hashes, t)
    IN  [i \in 1..Len(posts) |-> from_post(t, posts[i])]

\* ------------------------------------------------------ Record operations
\* fetch_revision, lines 56-57: a negative rev_no counts from the end.
NormRevNo(rev_no, len) == IF rev_no < 0 THEN len + rev_no ELSE rev_no

\* fetch_revision, line 60: the test that raises IndexError.
RevNoNotFound(rev_no, len) == rev_no > len

\* fetch_revision fetching the post of the newest revision.
FetchedHash_Tail(r) == r.revision_hashes[Len(r.revision_hashes)]

\* fetch_revision, line 73: the hash whose post is fetched to refresh the
\* content fields.
FetchedHash(r) == r.item_hash

\* fetch_revision, lines 72-73: refresh the content of r (whose
\* current_revision has already been assigned) from the network.
Materialize(r) ==
    LET got == fetch_records(r.type, {FetchedHash(r)})
    IN  IF Len(got) = 0
        THEN [rec |-> r, result |-> "IndexError"]
        ELSE [rec |-> [r EXCEPT !.content = got[1].content], result |-> "ok"]

\* Record.fetch_revision: the record afterwards and how the call ended.
fetch_revision(r, rev_no, rev_hash) ==
    IF rev_no # None
    THEN LET n == NormRevNo(rev_no, Len(r.revision_hashes))
         IN  IF r.current_revision = n
             THEN [rec |-> r, result |-> "ok"]
             ELSE IF RevNoNotFound(n, Len(r.revision_hashes))
             THEN [rec |-> r, result |-> "IndexError"]
             ELSE Materialize([r EXCEPT !.current_revision = n])
    ELSE IF rev_hash # None
    THEN LET i == IndexOf(r.revision_hashes, rev_hash)
         IN  IF i = None
             THEN [rec |-> r, result |-> "IndexError"]
             ELSE Materialize([r EXCEPT !.current_revision = i])
    ELSE [rec |-> r, result |-> "ValueError"]

\* post_or_amend_object putting the new hash in front of the chain.
post_or_amend_object_Prepend(r, h) ==
    LET revs == <<h>> \o r.revision_hashes
    IN  [r EXCEPT !.item_hash = IF r.item_hash = None THEN h ELSE r.item_hash,
                  !.revision_hashes = revs,
                  !.current_revision = Len(revs) - 1]

\* post_or_amend_object taking the hash of every new post as item_hash.
post_or_amend_object_Rehash(r, h) ==
    LET revs == Append(r.revision_hashes, h)
    IN  [r EXCEPT !.item_hash = h,
                  !.revision_hashes = revs,
                  !.current_revision = Len(revs) - 1]

\* post_or_amend_object with current_revision set to the length of the chain
\* instead of the index of its tail.
post_or_amend_object_LenAsTail(r, h) ==
    LET revs == Append(r.revision_hashes, h)
    IN  [r EXCEPT !.item_hash = IF r.item_hash = None THEN h ELSE r.item_hash,
                  !.revision_hashes = revs,
                  !.current_revision = Len(revs)]

\* post_or_amend_object, lines 179-182: the record after the network
\* answered create_post with item_hash h.
post_or_amend_object(r, h) ==
    LET revs == Append(r.revision_hashes, h)
    IN  [r EXCEPT !.item_hash = IF r.item_hash = None THEN h ELSE r.item_hash,
                  !.revision_hashes = revs,
                  !.current_revision = Len(revs) - 1]

\* Record.upsert, line 79: whether the indices are told about the record.
EntersIndices(r) == r.current_revision = 0

\* Index.__repr__: the key under which add_index registers an index.
Repr(idx) == idx.datatype \o "." \o idx.index_on

\* getattr(obj, index_on) succeeds only for a field of the record's type.
HasAttr(r, f) == f = FieldOf(r.type)

\* Index.add replacing the hashmap by one that holds the new entry only.
IndexAdd_Replace(idx, r) ==
    [idx EXCEPT !.hashmap = [k \in Keys |-> IF k = r.content THEN r.item_hash ELSE None]]

\* Index.add
IndexAdd(idx, r) == [idx EXCEPT !.hashmap = [@ EXCEPT ![r.content] = r.item_hash]]

\* Record.upsert, line 80: add the record to every index of the registry, in
\* registration order; getattr raises AttributeError at the first index on
\* a field the record does not have, and the later indices are not reached.
AddToIndices(idxs, r) ==
    LET bad   == {i \in 1..Len(idxs) : ~HasAttr(r, idxs[i].index_on)}
        first == IF bad = {} THEN Len(idxs) + 1
                 ELSE CHOOSE i \in bad : \A j \in bad : i <= j
    IN  [indices |-> [i \in 1..Len(idxs) |-> IF i < first THEN IndexAdd(idxs[i], r) ELSE idxs[i]],
         result  |-> IF bad = {} THEN "ok" ELSE "AttributeError"]

\* Record.upsert on record r: the post, the record and the registry
\* afterwards, and how the call ended.
upsert(r) ==
    LET h     == Len(net) + 1
        r2    == post_or_amend_object(r, h)
        added == IF EntersIndices(r2) THEN AddToIndices(indices, r2)
                 ELSE [indices |-> indices, result |-> "ok"]
    IN  [net |-> CreatePost(r.content, r.type, r.item_hash), rec |-> r2,
         indices |-> added.indices, result |-> added.result]

\* Record.forget without the test of the forgotten flag.
MayForget_Always(r) == TRUE

\* Record.forget, line 84: whether the forget request is sent.
MayForget(r) == ~r.forgotten

\* forget_object asking the network to forget the canonical post only.
ForgetHashes_CanonicalOnly(r) == <<r.item_hash>>

\* forget_object, line 196: the hashes of the forget request.
ForgetHashes(r) == <<r.item_hash>> \o r.revision_hashes

\* Index.fetch, line 156: hashmap[key] raises KeyError for an absent key.
KeyMissing(idx, keys) == \E k \in ToSet(keys) : idx.hashmap[k] = None

\* Index.fetch(keys): the records returned and how the call ended.
IndexFetch(idx, keys) ==
    IF KeyMissing(idx, keys)
    THEN [out |-> <<>>, result |-> "KeyError"]
    ELSE [out |-> fetch_records(idx.datatype, {idx.hashmap[k] : k \in ToSet(keys)}),
          result |-> "ok"]

\* Record.query, line 123: the registered index that `name` selects, as its
\* position in the registry, 0 when there is none.
Lookup(name) ==
    IF \E i \in 1..Len(indices) : Repr(indices[i]) = name
    THEN CHOOSE i \in 1..Len(indices) : Repr(indices[i]) = name
    ELSE 0

\* Record.query
query(keys, name) ==
    IF Lookup(name) = 0
    THEN [out |-> <<>>, result |-> "ValueError"]
    ELSE IndexFetch(indices[Lookup(name)], keys)

\* ------------------------------------------------------------ the inputs
\* Revision numbers passed to fetch_revision (None: not given).
RevNos == (-MaxRev)..MaxRev
\* Revision hashes passed to fetch_revision (None: not given).
RevHashes == Hashes
\* Key lists passed to query and Index.fetch.
KeyLists == {<<"x", "y">>, <<"y", "x">>, <<"z">>}
\* Index names passed to query: a field name, a registry key.
IndexNames == {"value", "A.value"}

\* Lists of item hashes passed to Record.fetch (in ascending order: the
\* order of the list does not reach the network's answer).
HashLists ==
    {s \in UNION {[1..n -> Hashes] : n \in 1..MaxPosts} :
        \A i \in 1..(Len(s) - 1) : s[i] < s[i + 1]}

\* The call made last: its arguments, how it ended (result) and the
\* item hashes of the records it returned (out).
Op(op, obj, rev_no, rev_hash, keys, index, result, out) ==
    [op |-> op, obj |-> obj, rev_no |-> rev_no, rev_hash |-> rev_hash, keys |-> keys,
     index |-> index, result |-> result, out |-> out]

ItemHashes(records) == [i \in 1..Len(records) |-> records[i].item_hash]

Constructed == {o \in Objs : recs[o] # NoRecord}

\* The object in which the next record is constructed.
NextObj(objs) == CHOOSE n \in objs \ Constructed : \A m \in objs \ Constructed : n <= m

\* ----------------------------------------------------------------- state
Init ==
    /\ recs = [o \in Objs |-> NoRecord]
    /\ net = <<>>
    /\ forgottenNet = {}
    /\ forgetReqs = <<>>
    /\ indices = <<>>
    /\ lastOp = Op("init", 0, None, None, <<>>, "", "ok", <<>>)
    /\ hist = [o \in Objs |-> [content |-> "none", upserts |-> 0, registered |-> 0,
                               created |-> "none"]]
    /\ fetched = <<>>
    /\ tasks = <<>>
    /\ pending = [o \in Objs |-> <<>>]

\* A call that is neither Record.fetch nor suspended at an await: it returns
\* no list of fetched records, the tasks of an earlier fetch are gone, and
\* no forget call is suspended by it.
Plain ==
    /\ fetched' = <<>>
    /\ tasks' = <<>>
    /\ UNCHANGED pending

\* Index(datatype, index_on): construct an index and register it with
\* add_index under its repr (an index is registered once).
RegisterIndex(t) ==
    LET idx == [datatype |-> t, index_on |-> FieldOf(t), hashmap |-> [k \in Keys |-> None]]
    IN  /\ \A i \in 1..Len(indices) : Repr(indices[i]) # Repr(idx)
        /\ indices' = Append(indices, idx)
        /\ lastOp' = Op("add_index", 0, None, None, <<>>, Repr(idx), "ok", <<>>)
        /\ UNCHANGED <<recs, net, forgottenNet, forgetReqs, hist>>
        /\ Plain

\* Record.create(**kwargs): construct the next object and upsert it.
Create(objs, maxPosts, t, v) ==
    /\ Len(net) < maxPosts
    /\ objs \ Constructed # {}
    /\ LET o   == NextObj(objs)
           res == upsert(NewRecord(t, v))
       IN  /\ recs' = [recs EXCEPT ![o] = res.rec]
           /\ net' = res.net
           /\ indices' = res.indices
           /\ lastOp' = Op("create", o, None, None, <<>>, "", res.result, <<>>)
           /\ hist' = [hist EXCEPT ![o] = [content |-> v, upserts |-> 0,
                                           registered |-> Len(indices),
                                           created |-> res.result]]
    /\ UNCHANGED <<forgottenNet, forgetReqs>>
    /\ Plain

\* The caller assigns the content field of record o and calls upsert.
Upsert(maxPosts, o, v) ==
    /\ Len(net) < maxPosts
    /\ o \in Constructed
    /\ LET res == upsert([recs[o] EXCEPT !.content = v])
       IN  /\ recs' = [recs EXCEPT ![o] = res.rec]
           /\ net' = res.net
           /\ indices' = res.indices
           /\ lastOp' = Op("upsert", o, None, None, <<>>, "", res.result, <<>>)
           /\ hist' = [hist EXCEPT ![o].upserts = @ + 1]
    /\ UNCHANGED <<forgottenNet, forgetReqs>>
    /\ Plain

\* Record.fetch_revision(rev_no, rev_hash) on record o.
FetchRevision(o, rev_no, rev_hash) ==
    /\ o \in Constructed
    /\ LET res == fetch_revision(recs[o], rev_no, rev_hash)
       IN  /\ recs' = [recs EXCEPT ![o] = res.rec]
           /\ lastOp' = Op("fetch_revision", o, rev_no, rev_hash, <<>>, "", res.result, <<>>)
    /\ UNCHANGED <<net, forgottenNet, forgetReqs, indices, hist>>
    /\ Plain

\* Record.forget on record o.
Forget(o) ==
    /\ o \in Constructed
    /\ IF MayForget(recs[o])
       THEN /\ forgetReqs' = Append(forgetReqs, ForgetHashes(recs[o]))
            /\ forgottenNet' = forgottenNet \cup ToSet(ForgetHashes(recs[o]))
            /\ recs' = [recs EXCEPT ![o].forgotten = TRUE]
            /\ lastOp' = Op("forget", o, None, None, <<>>, "", "ok", <<>>)
       ELSE /\ lastOp' = Op("forget", o, None, None, <<>>, "", "AlreadyForgotten", <<>>)
            /\ UNCHANGED <<forgetReqs, forgottenNet, recs>>
    /\ UNCHANGED <<net, indices, hist>>
    /\ Plain

\* cls.query(keys, index=name)
Query(keys, name) ==
    /\ LET res == query(keys, name)
       IN  lastOp' = Op("query", 0, None, None, keys, name, res.result, ItemHashes(res.out))
    /\ UNCHANGED <<recs, net, forgottenNet, forgetReqs, indices, hist>>
    /\ Plain

\* Index.fetch(keys) on the i-th registered index.
FetchIndex(i, keys) ==
    /\ i \in 1..Len(indices)
    /\ LET res == IndexFetch(indices[i], keys)
       IN  lastOp' = Op("index_fetch", i, None, None, keys, Repr(indices[i]), res.result,
                        ItemHashes(res.out))
    /\ UNCHANGED <<recs, net, forgottenNet, forgetReqs, indices, hist>>
    /\ Plain

\* cls.fetch(hashes): the records rebuilt from the posts the network serves
\* for these hashes.
Fetch(t, hashes) ==
    /\ fetched' = fetch_records(t, ToSet(hashes))
    /\ lastOp' = Op("fetch", 0, None, None, hashes, t, "ok", ItemHashes(fetched'))
    /\ UNCHANGED <<recs, net, forgottenNet, forgetReqs, indices, hist, tasks, pending>>

\* One call of the application, with the records it may construct, the
\* number of posts it may make and the arguments it may pass.
Step(objs, maxPosts, revNos, revHashes, keyLists, names, hashLists) ==
    \/ \E t \in Types : RegisterIndex(t)
    \/ \E t \in CreatedTypes, v \in Values : Create(objs, maxPosts, t, v)
    \/ \E o \in objs, v \in Values : Upsert(maxPosts, o, v)
    \/ \E o \in objs, n \in revNos \cup {None}, h \in revHashes \cup {None} :
          /\ (n # None => h \in {None, 1})
          /\ FetchRevision(o, n, h)
    \/ \E o \in objs : Forget(o)
    \/ \E keys \in keyLists, name \in names : Query(keys, name)
    \/ \E i \in 1..Cardinality(Types), keys \in keyLists : FetchIndex(i, keys)
    \/ \E t \in CreatedTypes, hashes \in hashLists : Fetch(t, hashes)

\* One record and every way of calling fetch_revision on it.
NextChain == Step({1}, MaxPosts, RevNos, RevHashes, {<<"x", "y">>}, {"A.value"}, HashLists)

SpecChain == Init /\ [][NextChain]_vars

\* Several records and every way of querying the indices.
Next == Step(Objs, MaxIndexPosts, {0}, {}, KeyLists, IndexNames, {<<1>>})

Spec == Init /\ [][Next]_vars

\* asyncio.gather returning the results in the order of completion.
GatherResults_CompletionOrder(ts) ==
    [k \in 1..Len(ts) |-> ts[CHOOSE i \in 1..Len(ts) : ts[i].rank = k].rec]

\* asyncio.gather, line 216: the results in the order of the awaitables.
GatherResults(ts) == [i \in 1..Len(ts) |-> ts[i].rec]

\* asyncio.gather, line 216: every task has returned.
AllDone(ts) == \A i \in 1..Len(ts) : ts[i].pc = "done"

\* No forget call is suspended at its await.
NoForgetPending == \A o \in Objs : pending[o] = <<>>

\* No call of the application is suspended at an await.
Quiet == ~(lastOp.op = "fetch" /\ lastOp.result = "suspended") /\ NoForgetPending

\* fetch_records, line 215: the from_post task of one post, not yet started.
NewTask(t, post) ==
    [post |-> post, pc |-> "new", rank |-> 0, rec |-> NewRecord(t, post.content)]

\* One step of a from_post task, from one await to the next: from its start
\* to the first await (line 103 for a post with a ref, line 105 otherwise),
\* from the answer of fetch_revisions (line 103) to the await of line 105,
\* and from the answer of update_revision_hashes (line 105) to the return.
from_post_step(task) ==
    LET post == task.post
        r    == task.rec
    IN  IF task.pc = "new" /\ post.ref = None
        THEN [task EXCEPT !.pc = "update",
                          !.rec = [r EXCEPT !.item_hash = post.item_hash,
                                            !.revision_hashes = <<post.item_hash>>]]
        ELSE IF task.pc = "new"
        THEN [task EXCEPT !.pc = "revisions", !.rec = [r EXCEPT !.item_hash = post.ref]]
        ELSE IF task.pc = "revisions"
        THEN [task EXCEPT !.pc = "update",
                          !.rec = [r EXCEPT !.revision_hashes = fetch_revisions(r.type, r.item_hash)]]
        ELSE LET revs == update_revision_hashes(r.type, r.item_hash)
             IN  [task EXCEPT !.pc = "done",
                              !.rec = [r EXCEPT !.revision_hashes = revs,
                                                !.current_revision = IndexOf(revs, post.item_hash)]]

\* fetch_records up to the await of line 216: the network answers get_posts
\* and one from_post task per post is handed to asyncio.gather; with no
\* post the call returns the empty list.
BeginFetch(t, hashes) ==
    /\ Quiet
    /\ LET posts == GetPostsByHashes(ToSet(hashes), t)
       IN  /\ tasks' = [i \in 1..Len(posts) |-> NewTask(t, posts[i])]
           /\ lastOp' = Op("fetch", 0, None, None, hashes, t,
                           IF Len(posts) = 0 THEN "ok" ELSE "suspended", <<>>)
    /\ fetched' = <<>>
    /\ UNCHANGED <<recs, net, forgottenNet, forgetReqs, indices, hist, pending>>

\* The event loop resumes the i-th from_post task until its next await.
TaskStep(i) ==
    /\ i \in 1..Len(tasks)
    /\ tasks[i].pc # "done"
    /\ lastOp.result = "suspended"
    /\ LET task == from_post_step(tasks[i])
           done == Cardinality({j \in 1..Len(tasks) : tasks[j].pc = "done"})
       IN  tasks' = [tasks EXCEPT ![i] = IF task.pc = "done"
                                         THEN [task EXCEPT !.rank = done + 1]
                                         ELSE task]
    /\ UNCHANGED <<recs, net, forgottenNet, forgetReqs, indices, hist, lastOp, fetched, pending>>

\* fetch_records from the await of line 216 on: gather has collected the
\* results and the call returns them.
EndFetch ==
    /\ lastOp.op = "fetch"
    /\ lastOp.result = "suspended"
    /\ AllDone(tasks)
    /\ fetched' = GatherResults(tasks)
    /\ lastOp' = [lastOp EXCEPT !.result = "ok", !.out = ItemHashes(fetched')]
    /\ UNCHANGED <<recs, net, forgottenNet, forgetReqs, indices, hist, tasks, pending>>

\* Records are written and forgotten while no fetch is in progress; the
\* from_post tasks of a fetch run in every order.
NextGather ==
    \/ \E t \in CreatedTypes, v \in Values : Quiet /\ Create(Objs, MaxPosts, t, v)
    \/ \E o \in Objs, v \in Values : Quiet /\ Upsert(MaxPosts, o, v)
    \/ \E o \in Objs : Quiet /\ Forget(o)
    \/ \E t \in CreatedTypes, hashes \in HashLists : BeginFetch(t, hashes)
    \/ \E i \in 1..MaxPosts : TaskStep(i)
    \/ EndFetch

SpecGather == Init /\ [][NextGather]_vars

\* Record.forget on record o up to the await of line 85: the flag is tested
\* and forget_object sends the request; the call is suspended until the
\* network answers.
ForgetBegin(o) ==
    /\ o \in Constructed
    /\ Len(pending[o]) < MaxCalls
    /\ IF MayForget(recs[o])
       THEN /\ forgetReqs' = Append(forgetReqs, ForgetHashes(recs[o]))
            /\ pending' = [pending EXCEPT ![o] = Append(@, ForgetHashes(recs[o]))]
            /\ lastOp' = Op("forget", o, None, None, <<>>, "", "suspended", <<>>)
       ELSE /\ lastOp' = Op("forget", o, None, None, <<>>, "", "AlreadyForgotten", <<>>)
            /\ UNCHANGED <<forgetReqs, pending>>
    /\ fetched' = <<>>
    /\ tasks' = <<>>
    /\ UNCHANGED <<recs, net, forgottenNet, indices, hist>>

\* Record.forget on record o from the await of line 85 on: the network has
\* carried out the i-th request in flight and answered it; the call that
\* waited for it sets the flag (line 86) and returns.
ForgetEnd(o, i) ==
    /\ i \in 1..Len(pending[o])
    /\ forgottenNet' = forgottenNet \cup ToSet(pending[o][i])
    /\ pending' = [pending EXCEPT ![o] = SubSeq(@, 1, i - 1) \o SubSeq(@, i + 1, Len(@))]
    /\ recs' = [recs EXCEPT ![o].forgotten = TRUE]
    /\ lastOp' = Op("forget", o, None, None, <<>>, "", "ok", <<>>)
    /\ fetched' = <<>>
    /\ UNCHANGED <<net, forgetReqs, indices, hist, tasks>>

\* One record whose forget calls may overlap; every other call is made
\* while no forget call is suspended.
NextForget ==
    \/ \E t \in CreatedTypes, v \in Values : NoForgetPending /\ Create({1}, MaxPosts, t, v)
    \/ \E v \in Values : NoForgetPending /\ Upsert(MaxPosts, 1, v)
    \/ ForgetBegin(1)
    \/ \E i \in 1..MaxCalls : ForgetEnd(1, i)

SpecForget == Init /\ [][NextForget]_vars

\* ------------------------------------------------------------ the claims
Rec(o) == recs[o]
ChainLen(o) == Len(recs[o].revision_hashes)
IsFetchRevision(op) == op.op = "fetch_revision"

\* C1: for every record that has been persisted, after any sequence of
\* create, upsert and fetch_revision calls,
\* 0 <= current_revision < len(revision_hashes).
C1_RevisionInRange ==
    \A o \in Constructed :
        /\ 0 <= Rec(o).current_revision
        /\ Rec(o).current_revision < ChainLen(o)

\* C2: fetch_revision(rev_no=k) with k >= len(revision_hashes) fails with the
\* revision-not-found error, also for k = len(revision_hashes).
C2_RevNoBeyondChainFails ==
    (/\ IsFetchRevision(lastOp)
     /\ lastOp.rev_no # None
     /\ lastOp.rev_no >= ChainLen(lastOp.obj))
    => lastOp.result = "IndexError"

\* C3: after create, item_hash is set, revision_hashes = [item_hash] and
\* current_revision = 0; after create and N further upserts (with
\* fetch_revision calls in between or not) len(revision_hashes) = N + 1, and
\* the N-th upsert leaves current_revision = N.
C3_ChainGrowsByOne ==
    /\ \A o \in Constructed : ChainLen(o) = hist[o].upserts + 1
    /\ lastOp.op = "create" =>
          /\ Rec(lastOp.obj).item_hash # None
          /\ Rec(lastOp.obj).revision_hashes = <<Rec(lastOp.obj).item_hash>>
          /\ Rec(lastOp.obj).current_revision = 0
    /\ lastOp.op \in {"create", "upsert"} =>
          Rec(lastOp.obj).current_revision = hist[lastOp.obj].upserts

\* C3 witness: the second upsert after create has been made.
C3_Witness ==
    /\ lastOp.op = "upsert"
    /\ hist[lastOp.obj].upserts = 2
    /\ Rec(lastOp.obj).current_revision = 2

\* The content that was posted as revision k (0-based) of record o.
PostedContent(o, k) == net[Rec(o).revision_hashes[k + 1]].content

\* C4: a successful fetch_revision that resolves to revision k leaves the
\* record with the content that was posted as the k-th revision.
C4_FetchedContentIsRevision ==
    (/\ IsFetchRevision(lastOp)
     /\ lastOp.result = "ok"
     /\ Rec(lastOp.obj).current_revision \in 0..(ChainLen(lastOp.obj) - 1))
    => Rec(lastOp.obj).content = PostedContent(lastOp.obj, Rec(lastOp.obj).current_revision)

\* The step is fetch_revision(rev_no=0) on a record o that has been
\* upserted at least once since create.
FetchFirstStep(o) ==
    /\ IsFetchRevision(lastOp')
    /\ lastOp'.obj = o
    /\ lastOp'.rev_no = 0
    /\ hist[o].upserts >= 1

\* What fetch_revision(rev_no=0) is to do: the content of creation time,
\* current_revision 0, the chain and the network as they were.
RestoresCreation(o) ==
    /\ recs'[o].content = hist[o].content
    /\ recs'[o].current_revision = 0
    /\ recs'[o].revision_hashes = recs[o].revision_hashes
    /\ net' = net

\* C5 as stated: for every record and every number N >= 1 of upserts after
\* create, fetch_revision(rev_no=0) leaves the content of creation time and
\* current_revision 0, without changing revision_hashes or posting.
C5_FetchFirstRestoresCreation ==
    [][\A o \in Objs : FetchFirstStep(o) => RestoresCreation(o)]_vars

\* C5 amended: the same for every record that has not been forgotten; the
\* call then returns normally.
C5_FetchFirstRestoresUnforgotten ==
    [][\A o \in Objs : (FetchFirstStep(o) /\ ~recs[o].forgotten)
                          => (RestoresCreation(o) /\ lastOp'.result = "ok")]_vars

\* C5 witness: fetch_revision(rev_no=0) has moved a record, upserted with a
\* content other than that of creation, back from a later revision.
C5_Witness ==
    /\ IsFetchRevision(lastOp)
    /\ lastOp.rev_no = 0
    /\ lastOp.result = "ok"
    /\ ~Rec(lastOp.obj).forgotten
    /\ hist[lastOp.obj].upserts >= 1
    /\ Rec(lastOp.obj).content = hist[lastOp.obj].content
    /\ \E k \in 1..(ChainLen(lastOp.obj) - 1) :
          PostedContent(lastOp.obj, k) # hist[lastOp.obj].content

\* C6: once forgotten is true it stays true, and every later upsert of the
\* record is rejected: nothing is posted, and revision_hashes and
\* current_revision do not change.
C6_ForgetIsTerminal ==
    [][\A o \in Objs : recs[o].forgotten =>
          /\ recs'[o].forgotten
          /\ (lastOp'.op = "upsert" /\ lastOp'.obj = o) =>
                /\ net' = net
                /\ recs'[o].revision_hashes = recs[o].revision_hashes
                /\ recs'[o].current_revision = recs[o].current_revision]_vars

\* C7: forget on a record whose forgotten flag is set fails with
\* AlreadyForgotten, sends no forget request, and leaves forgotten and every
\* other field of the record unchanged.
C7_SecondForgetRejected ==
    [][\A o \in Objs : (recs[o].forgotten /\ lastOp'.op = "forget" /\ lastOp'.obj = o) =>
          /\ lastOp'.result = "AlreadyForgotten"
          /\ forgetReqs' = forgetReqs
          /\ forgottenNet' = forgottenNet
          /\ recs'[o] = recs[o]
          /\ recs'[o].forgotten]_vars

\* C7 witness: a second forget has been rejected.
C7_Witness ==
    /\ lastOp.op = "forget"
    /\ lastOp.result = "AlreadyForgotten"
    /\ Rec(lastOp.obj).forgotten
    /\ Len(forgetReqs) = 1

\* C8: a record enters the indices of its type at its first persist and
\* only then: the upsert that creates revision 0 modifies the hashmap of
\* every index of the record's type, every later upsert leaves it unchanged.
C8_IndexedOnceAtFirstPersist ==
    [][\A o \in Objs, i \in 1..Len(indices) :
          (/\ lastOp'.op \in {"create", "upsert"}
           /\ lastOp'.obj = o
           /\ indices[i].datatype = recs'[o].type)
          => IF recs[o].revision_hashes = <<>>
             THEN /\ indices'[i].hashmap # indices[i].hashmap
                  /\ indices'[i].hashmap[recs'[o].content] = recs'[o].item_hash
             ELSE indices'[i].hashmap = indices[i].hashmap]_vars

\* Record o was returned by create while the i-th index was registered for
\* its type, and has not been forgotten.
CreatedUnder(o, i) ==
    /\ o \in Constructed
    /\ hist[o].created = "ok"
    /\ hist[o].registered >= i
    /\ Rec(o).type = indices[i].datatype
    /\ ~Rec(o).forgotten

\* Record o is the only record created with value v.
SoleWith(o, v) ==
    /\ hist[o].content = v
    /\ \A p \in Constructed \ {o} : hist[p].content # v

\* C9: with Index(A, "value") registered and A records created with the
\* values "x" and "y", query(["x", "y"], index="value") returns both records
\* and query(["z"], index="value") fails with the index-key-not-found error.
C9_QueryByFieldName ==
    \A i \in 1..Len(indices), ox \in Constructed, oy \in Constructed :
        (/\ lastOp.op = "query"
         /\ indices[i].datatype = "A"
         /\ lastOp.index = indices[i].index_on
         /\ CreatedUnder(ox, i) /\ SoleWith(ox, "x")
         /\ CreatedUnder(oy, i) /\ SoleWith(oy, "y"))
        => /\ ToSet(lastOp.keys) = {"x", "y"} =>
                /\ lastOp.result = "ok"
                /\ ToSet(lastOp.out) = {Rec(ox).item_hash, Rec(oy).item_hash}
           /\ lastOp.keys = <<"z">> => lastOp.result = "KeyError"

\* C10: with records R1 and R2 created with distinct values of the indexed
\* field, Index.fetch of the two values, in either order, returns exactly
\* the records with the item hashes of R1 and R2, each once; Index.fetch
\* with a key absent from hashmap fails and returns no record.
C10_IndexFetchExact ==
    lastOp.op = "index_fetch" =>
        /\ \A o1 \in Constructed, o2 \in Constructed :
              (/\ o1 # o2
               /\ CreatedUnder(o1, lastOp.obj) /\ SoleWith(o1, hist[o1].content)
               /\ CreatedUnder(o2, lastOp.obj) /\ SoleWith(o2, hist[o2].content)
               /\ lastOp.keys = <<hist[o1].content, hist[o2].content>>)
              => /\ lastOp.result = "ok"
                 /\ Len(lastOp.out) = 2
                 /\ ToSet(lastOp.out) = {Rec(o1).item_hash, Rec(o2).item_hash}
        /\ (\E k \in ToSet(lastOp.keys) : indices[lastOp.obj].hashmap[k] = None)
              => (lastOp.result = "KeyError" /\ lastOp.out = <<>>)

\* C10 witness: Index.fetch has returned the two records created with the
\* values "y" and "x", asked for in that order.
C10_Witness ==
    /\ lastOp.op = "index_fetch"
    /\ lastOp.keys = <<"y", "x">>
    /\ lastOp.result = "ok"
    /\ Len(lastOp.out) = 2
    /\ \E o1 \in Constructed, o2 \in Constructed :
          /\ CreatedUnder(o1, lastOp.obj) /\ SoleWith(o1, "y")
          /\ CreatedUnder(o2, lastOp.obj) /\ SoleWith(o2, "x")

\* The chain of X as the network holds it: X, then the hashes of the served
\* posts that reference X, in the order they were created.
ServedChain(X) ==
    LET revisions == SelectSeq(net, LAMBDA p : p.ref = X /\ p.item_hash \notin forgottenNet)
    IN  <<X>> \o [i \in 1..Len(revisions) |-> revisions[i].item_hash]

\* The posts the network answered the last Record.fetch call with.
FetchResponse == GetPostsByHashes(ToSet(lastOp.keys), lastOp.index)

\* C11: a record rebuilt from a post with no ref has the post's own hash as
\* item_hash; a record rebuilt from a post with ref = X has item_hash = X,
\* revision_hashes equal to the full chain [X] + revisions of X oldest first,
\* and current_revision equal to the position of the post's own hash in it.
C11_FromPostPlacesRevision ==
    lastOp.op = "fetch" =>
        /\ Len(fetched) = Len(FetchResponse)
        /\ \A i \in 1..Len(fetched) :
              LET post == FetchResponse[i]
                  r    == fetched[i]
              IN  /\ post.ref = None => r.item_hash = post.item_hash
                  /\ post.ref # None =>
                        /\ r.item_hash = post.ref
                        /\ r.revision_hashes = ServedChain(post.ref)
                        /\ r.current_revision \in 0..(Len(r.revision_hashes) - 1)
                        /\ r.revision_hashes[r.current_revision + 1] = post.item_hash

\* C11 witness: a record was rebuilt from a revision post that is not the
\* newest of its chain, and another from a post with no ref.
C11_Witness ==
    /\ lastOp.op = "fetch"
    /\ \E i \in 1..Len(fetched) :
          /\ FetchResponse[i].ref # None
          /\ fetched[i].current_revision < Len(fetched[i].revision_hashes) - 1
    /\ \E i \in 1..Len(fetched) : FetchResponse[i].ref = None

\* C12: when fetch_records returns, every from_post task has completed and
\* the list holds exactly one record per post of the network's answer, the
\* i-th record rebuilt from the i-th post, whatever the order in which the
\* tasks ran and completed.
C12_GatherKeepsResponseOrder ==
    (lastOp.op = "fetch" /\ lastOp.result = "ok") =>
        /\ \A i \in 1..Len(tasks) : tasks[i].pc = "done"
        /\ Len(tasks) = Len(FetchResponse)
        /\ Len(fetched) = Len(FetchResponse)
        /\ \A i \in 1..Len(fetched) :
              LET post == FetchResponse[i]
                  r    == fetched[i]
              IN  /\ r.content = post.content
                  /\ r.item_hash = (IF post.ref = None THEN post.item_hash ELSE post.ref)
                  /\ r.current_revision \in 0..(Len(r.revision_hashes) - 1)
                  /\ r.revision_hashes[r.current_revision + 1] = post.item_hash

\* C12 witness: fetch_records returned three records whose tasks completed
\* in another order than the posts of the answer, one of them for a post
\* with a ref.
C12_Witness ==
    /\ lastOp.op = "fetch"
    /\ lastOp.result = "ok"
    /\ Len(fetched) = 3
    /\ tasks[1].rank = 3
    /\ tasks[3].rank = 1
    /\ \E i \in 1..Len(tasks) : tasks[i].post.ref # None

IsPrefix(s, t) == Len(s) <= Len(t) /\ \A i \in 1..Len(s) : s[i] = t[i]

\* C13: for every record and every single upsert, fetch_revision or forget,
\* revision_hashes before the operation is a prefix of revision_hashes after
\* it.
C13_ChainAppendOnly ==
    [][lastOp'.op \in {"upsert", "fetch_revision", "forget"} =>
          \A o \in Constructed :
              IsPrefix(recs[o].revision_hashes, recs'[o].revision_hashes)]_vars

\* C13 witness: a record that was forgotten has been upserted to a chain of
\* three hashes.
C13_Witness ==
    /\ lastOp.op = "upsert"
    /\ Rec(lastOp.obj).forgotten
    /\ ChainLen(lastOp.obj) = 3

\* C14: once item_hash is set no operation changes it, and it equals
\* revision_hashes[0] after every operation.
C14_ItemHashImmutable ==
    [][/\ \A o \in Constructed : recs'[o].item_hash = recs[o].item_hash
       /\ \A o \in Objs : recs'[o] # NoRecord =>
             /\ recs'[o].item_hash # None
             /\ recs'[o].revision_hashes[1] = recs'[o].item_hash]_vars

\* C14 witness: a record was upserted after its creation and still carries
\* the hash of its first post.
C14_Witness ==
    /\ lastOp.op = "upsert"
    /\ hist[lastOp.obj].upserts = 1
    /\ Rec(lastOp.obj).item_hash = Rec(lastOp.obj).revision_hashes[1]
    /\ Rec(lastOp.obj).item_hash # Rec(lastOp.obj).revision_hashes[2]

\* C15: fetch_revision called with neither or with both of rev_no and
\* rev_hash fails with the invalid-argument error (ValueError) and leaves
\* the record as it was.
C15_ExactlyOneArgument ==
    [][(/\ IsFetchRevision(lastOp')
        /\ (lastOp'.rev_no = None) = (lastOp'.rev_hash = None))
       => /\ lastOp'.result = "ValueError"
          /\ recs' = recs]_vars

\* C16: the first persist of a record of type A does not fail because of an
\* index of another type, and leaves the hashmap of every index of another
\* type unchanged.
C16_OnlyIndicesOfOwnType ==
    [][lastOp'.op = "create" =>
          /\ lastOp'.result # "AttributeError"
          /\ \A i \in 1..Len(indices) :
                indices[i].datatype # recs'[lastOp'.obj].type => indices'[i] = indices[i]]_vars

\* C19: a fetch_revision call that fails leaves current_revision and the
\* content of the record as they were before the call.
C19_FailedFetchChangesNothing ==
    [][(IsFetchRevision(lastOp') /\ lastOp'.result # "ok") =>
          /\ recs'[lastOp'.obj].current_revision = recs[lastOp'.obj].current_revision
          /\ recs'[lastOp'.obj].content = recs[lastOp'.obj].content]_vars

\* C20: for a record that was created and upserted (and not forgotten) the
\* local revision_hashes equals [item_hash] + fetch_revisions(ref=item_hash),
\* and every record rebuilt from a post of its chain has the same
\* revision_hashes.
C20_LocalChainIsNetworkChain ==
    \A o \in Constructed : ~Rec(o).forgotten =>
        /\ Rec(o).revision_hashes = <<Rec(o).item_hash>> \o fetch_revisions(Rec(o).type, Rec(o).item_hash)
        /\ lastOp.op = "fetch" =>
              \A i \in 1..Len(fetched) :
                  fetched[i].item_hash = Rec(o).item_hash =>
                      fetched[i].revision_hashes = Rec(o).revision_hashes

\* C20 witness: the three posts of a chain written by create and two upserts
\* were each rebuilt into a record.
C20_Witness ==
    /\ lastOp.op = "fetch"
    /\ Len(fetched) = 3
    /\ \E o \in Constructed :
          /\ ~Rec(o).forgotten
          /\ ChainLen(o) = 3
          /\ \A i \in 1..3 : fetched[i].item_hash = Rec(o).item_hash

\* The posts of the chain of record o: its canonical post and the posts
\* that reference it.
ChainPosts(o) ==
    {i \in 1..Len(net) : net[i].item_hash = Rec(o).item_hash \/ net[i].ref = Rec(o).item_hash}

\* The forget requests the network received for record o.
RequestsFor(o) == {i \in 1..Len(forgetReqs) : forgetReqs[i][1] = Rec(o).item_hash}

\* C17: a forget call that returns has sent a request that lists item_hash
\* and every hash of revision_hashes, and no post of the record's chain is
\* still served; forgotten is set only when a request for the record has
\* been carried out.
C17_ForgetCoversChain ==
    /\ (lastOp.op = "forget" /\ lastOp.result = "ok") =>
          /\ Rec(lastOp.obj).forgotten
          /\ \E i \in RequestsFor(lastOp.obj) :
                {Rec(lastOp.obj).item_hash} \cup ToSet(Rec(lastOp.obj).revision_hashes)
                    \subseteq ToSet(forgetReqs[i])
          /\ \A p \in ChainPosts(lastOp.obj) : net[p].item_hash \in forgottenNet
    /\ \A o \in Constructed : Rec(o).forgotten =>
          \E i \in RequestsFor(o) : ToSet(forgetReqs[i]) \subseteq forgottenNet

\* C17 witness: a record with a chain of three posts has been forgotten.
C17_Witness ==
    /\ lastOp.op = "forget"
    /\ lastOp.result = "ok"
    /\ ChainLen(lastOp.obj) = 3
    /\ Cardinality(ChainPosts(lastOp.obj)) = 3

\* C18: a forget call that starts while another forget call on the same
\* record is suspended on its request fails with AlreadyForgotten and sends
\* no request, so the network receives at most one request for the record.
C18_OverlappingForgetSendsOnce ==
    [][(/\ lastOp'.op = "forget"
        /\ lastOp'.result # "ok"
        /\ pending[lastOp'.obj] # <<>>)
       => /\ lastOp'.result = "AlreadyForgotten"
          /\ forgetReqs' = forgetReqs
          /\ (Cardinality(RequestsFor(lastOp.obj)) <= 1)']_vars

====
